---- MODULE Spec2Model ----
(***************************************************************************)
(* Model of game_validator.py: one run of main() reads the record store,   *)
(* filters the candidates, and for each candidate checks its URL, writes   *)
(* the mapped status back and sleeps.  The store is external: it keeps its *)
(* content between runs and other parties may change it at any time.       *)
(*                                                                         *)
(* Python values are modelled as follows.  A str is a sequence of          *)
(* one-character strings.  None (and an absent field, which dict.get turns *)
(* into None) is the sentinel NoneUrl for a URL and NoneStr for the other  *)
(* strings.                                                                *)
(***************************************************************************)
EXTENDS Integers, Sequences, FiniteSets, TLC

\* ------------------------------------------------------------------ bounds
MaxRecords == 2      \* records in the store view
MaxRuns == 2         \* runs of main() in one behaviour
MaxExt == 1          \* modifications of the store by other parties (SpecExt)
MaxExtRecords == 1   \* records in the store view in SpecExt
MaxCalls == 3        \* direct calls of is_playable in SpecChecker

\* ------------------------------------------------------- python values
NoneUrl == <<"None">>
NoneStr == "None"

Whitespace == {" ", "\t", "\n", "\r", "\f"}

\* bool(x) of an optional str: None and "" are falsy
Truthy(s) == s # NoneUrl /\ Len(s) > 0

RECURSIVE LStrip(_)
LStrip(s) ==
    IF Len(s) > 0 /\ Head(s) \in Whitespace THEN LStrip(Tail(s)) ELSE s

RECURSIVE RStrip(_)
RStrip(s) ==
    IF Len(s) > 0 /\ s[Len(s)] \in Whitespace
    THEN RStrip(SubSeq(s, 1, Len(s) - 1))
    ELSE s

\* str.strip()
Strip(s) == RStrip(LStrip(s))

\* ------------------------------------------------------- the environment
\* URLs found in the gameplay_url field of the store
StoreUrls == {NoneUrl, <<>>, <<" ">>, <<"a">>}

\* URLs handed to is_playable when it is called directly
CallUrls ==
    StoreUrls \cup {<<" ", "\t">>, <<"\n">>, <<" ", "a", " ">>, <<"a", " ">>,
                    <<"a", "b">>, <<"\t", "b">>}

\* values of the ysws_status field: absent, another value, and the two
\* values this program writes
Statuses == {NoneStr, "Pending", "Ready", "Invalid"}

\* the environment settings read by os.getenv
EnvValues == {NoneStr, "", "key"}

\* what requests.get and the parse of the body can do: exc = "get" is an
\* exception raised by requests.get (connection error, timeout, bad URL),
\* exc = "parse" one raised by BeautifulSoup or select; frames is the
\* number of elements of class game_frame in the body
HttpOutcomes ==
    { [exc |-> "get", status |-> 0, frames |-> 0],
      [exc |-> "none", status |-> 404, frames |-> 1],
      [exc |-> "none", status |-> 200, frames |-> 0],
      [exc |-> "none", status |-> 200, frames |-> 1],
      [exc |-> "none", status |-> 200, frames |-> 2],
      [exc |-> "parse", status |-> 200, frames |-> 1] }

NoResponse == [exc |-> "none", status |-> 0, frames |-> 0]

VARIABLES
    store,          \* the view of the external table: a sequence of records
    api_key,        \* os.getenv('AIRTABLE_API_KEY')
    base_id,        \* os.getenv('AIRTABLE_BASE_ID')
    pc,             \* position of main()
    records,        \* what table.all returned in this run
    projects,       \* main's projects
    idx,            \* position of the for loop in projects (1-based)
    url,            \* argument of the last is_playable call
    response,       \* outcome of the HTTP request of the last is_playable call
    playable,       \* what the last is_playable call returned
    raised,         \* whether the last is_playable call raised
    ready_count,
    invalid_count,
    trace,          \* this run's calls and log lines, in order
    runs,           \* runs of main() started
    ext,            \* modifications by other parties so far
    touched,        \* ids modified by other parties since the last store read
    prevOk,         \* ids the previous run wrote successfully
    prevFailed,     \* ids whose write failed in the previous run
    calls           \* direct calls of is_playable (SpecChecker)

vars == <<store, api_key, base_id, pc, records, projects, idx, url, response,
          playable, raised, ready_count, invalid_count, trace, runs, ext,
          touched, prevOk, prevFailed, calls>>

\* one entry of trace: n is the record id (or the seconds of a sleep)
Event(op, n, arg, ok) == [op |-> op, n |-> n, arg |-> arg, ok |-> ok]

\* ---------------------------------------------------------------- stores
\* every store of n records: record i has id i
RecordsOf(n) ==
    { [i \in 1..n |-> [id |-> i, gameplay_url |-> u[i], ysws_status |-> st[i]]] :
        u \in [1..n -> StoreUrls], st \in [1..n -> Statuses] }

Stores == UNION { RecordsOf(n) : n \in 0..MaxRecords }

\* ------------------------------------------------- ItchioChecker.is_playable
\* is_playable without the test of the status code
IsPlayableAnyStatus(u, resp) ==
    IF ~Truthy(u) \/ ~Truthy(Strip(u))
    THEN [ret |-> FALSE, http |-> FALSE, exc |-> FALSE]
    ELSE IF resp.exc # "none"
    THEN [ret |-> FALSE, http |-> TRUE, exc |-> FALSE]
    ELSE [ret |-> resp.frames > 0, http |-> TRUE, exc |-> FALSE]

\* is_playable testing "not url" alone, without the strip
IsPlayableNoStrip(u, resp) ==
    IF ~Truthy(u)
    THEN [ret |-> FALSE, http |-> FALSE, exc |-> FALSE]
    ELSE IF resp.exc = "get" \/ resp.status # 200 \/ resp.exc = "parse"
    THEN [ret |-> FALSE, http |-> TRUE, exc |-> FALSE]
    ELSE [ret |-> resp.frames > 0, http |-> TRUE, exc |-> FALSE]

\* ret is the value returned, http whether requests.get was called, exc
\* whether an exception left the function
IsPlayable(u, resp) ==
    IF ~Truthy(u) \/ ~Truthy(Strip(u))
    THEN [ret |-> FALSE, http |-> FALSE, exc |-> FALSE]
    ELSE IF resp.exc = "get"
    THEN [ret |-> FALSE, http |-> TRUE, exc |-> FALSE]
    ELSE IF resp.status # 200
    THEN [ret |-> FALSE, http |-> TRUE, exc |-> FALSE]
    ELSE IF resp.exc = "parse"
    THEN [ret |-> FALSE, http |-> TRUE, exc |-> FALSE]
    ELSE [ret |-> resp.frames > 0, http |-> TRUE, exc |-> FALSE]

\* the entries one is_playable call adds to trace
CheckEvents(id, r) ==
    (IF r.http THEN <<Event("http", id, "GET", TRUE)>> ELSE <<>>)
    \o (IF r.exc THEN <<>> ELSE <<Event("check", id, "", r.ret)>>)

\* ------------------------------------------------- AirtableGameValidator
\* the test of the settings with "and" for "or"
ConfigOkEither(key, base) == ~(key \in {NoneStr, ""} /\ base \in {NoneStr, ""})

\* __init__: the test of the two settings
ConfigOk(key, base) == ~(key \in {NoneStr, ""} \/ base \in {NoneStr, ""})

\* the filter without the test of the URL
QualifiesAnyUrl(record) == record.ysws_status \notin {"Ready", "Invalid"}

\* the filter with 'Invalid' missing from the list of processed statuses
QualifiesInvalidToo(record) ==
    Truthy(record.gameplay_url) /\ record.ysws_status \notin {"Ready"}

\* the filter of get_projects_to_validate
Qualifies(record) ==
    Truthy(record.gameplay_url) /\ record.ysws_status \notin {"Ready", "Invalid"}

Project(record) ==
    [id |-> record.id, url |-> record.gameplay_url,
     current_status |-> record.ysws_status]

\* the loop of get_projects_to_validate over what table.all returned
RECURSIVE ProjectsToCheck(_)
ProjectsToCheck(recs) ==
    IF recs = <<>> THEN <<>>
    ELSE (IF Qualifies(Head(recs)) THEN <<Project(Head(recs))>> ELSE <<>>)
         \o ProjectsToCheck(Tail(recs))

\* what get_projects_to_validate returns: readOk is whether table.all
\* returned, recs what it returned
GetProjectsToValidate(readOk, recs) ==
    IF readOk THEN ProjectsToCheck(recs) ELSE <<>>

\* an update that reports success and changes no record
TableUpdateLost(st, id, status) == st

\* table.update(record_id, {'ysws_status': status}) on the store
TableUpdate(st, id, status) ==
    [i \in 1..Len(st) |->
        IF st[i].id = id THEN [st[i] EXCEPT !.ysws_status = status] ELSE st[i]]

\* ------------------------------------------------------------------ main
\* both branches of main writing 'Ready'
StatusForAlwaysReady(p) == "Ready"

\* the status main writes for a result of is_playable
StatusFor(p) == IF p THEN "Ready" ELSE "Invalid"

\* ready_count incremented without looking at what update_status returned
ReadyAfterAnyWrite(count, p, ok) == IF p THEN count + 1 ELSE count

\* ready_count and invalid_count after update_status returned ok
ReadyAfter(count, p, ok) == IF p /\ ok THEN count + 1 ELSE count
InvalidAfter(count, p, ok) == IF ~p /\ ok THEN count + 1 ELSE count

SleepSeconds == 1

Init ==
    /\ store \in Stores
    /\ api_key \in EnvValues
    /\ base_id \in EnvValues
    /\ pc = "start"
    /\ records = <<>>
    /\ projects = <<>>
    /\ idx = 0
    /\ url = NoneUrl
    /\ response = NoResponse
    /\ playable = FALSE
    /\ raised = FALSE
    /\ ready_count = 0
    /\ invalid_count = 0
    /\ trace = <<>>
    /\ runs = 1
    /\ ext = 0
    /\ touched = {}
    /\ prevOk = {}
    /\ prevFailed = {}
    /\ calls = 0

\* validator = AirtableGameValidator(); a ValueError goes to main's except
Construct ==
    /\ pc = "start"
    /\ IF ConfigOk(api_key, base_id)
       THEN /\ pc' = "fetch"
            /\ trace' = trace
       ELSE /\ pc' = "done"
            /\ trace' = Append(trace, Event("log", 0, "Fatal error", TRUE))
    /\ UNCHANGED <<store, api_key, base_id, records, projects, idx, url,
                   response, playable, raised, ready_count, invalid_count,
                   runs, ext, touched, prevOk, prevFailed, calls>>

\* main without the early return on an empty list: the loop runs zero
\* times and the summary is logged
AfterFetchNoReturn(readOk, recs) ==
    LET ps == GetProjectsToValidate(readOk, recs) IN
    /\ records' = recs
    /\ projects' = ps
    /\ IF ps = <<>>
       THEN /\ pc' = "done"
            /\ idx' = 0
            /\ trace' = trace \o <<Event("read", 0, "view", readOk),
                                   Event("log", 0, "Validation complete", TRUE)>>
       ELSE /\ pc' = "check"
            /\ idx' = 1
            /\ trace' = Append(trace, Event("read", 0, "view", readOk))

\* what main does with the list it got: return at once, or start the loop
AfterFetch(readOk, recs) ==
    LET ps == GetProjectsToValidate(readOk, recs) IN
    /\ records' = recs
    /\ projects' = ps
    /\ IF ps = <<>>
       THEN /\ pc' = "done"
            /\ idx' = 0
            /\ trace' = trace \o <<Event("read", 0, "view", readOk),
                                   Event("log", 0, "No projects to validate", TRUE)>>
       ELSE /\ pc' = "check"
            /\ idx' = 1
            /\ trace' = Append(trace, Event("read", 0, "view", readOk))

\* projects = validator.get_projects_to_validate(), and the test of the list
Fetch ==
    /\ pc = "fetch"
    /\ \/ AfterFetch(TRUE, store)       \* table.all returns the view
       \/ AfterFetch(FALSE, <<>>)       \* table.all raises
    /\ touched' = {}
    /\ UNCHANGED <<store, api_key, base_id, url, response, playable, raised,
                   ready_count, invalid_count, runs, ext, prevOk, prevFailed,
                   calls>>

\* checker.is_playable(project['url'])
Check ==
    /\ pc = "check"
    /\ \E resp \in HttpOutcomes :
        LET p == projects[idx]
            r == IsPlayable(p.url, resp) IN
        /\ url' = p.url
        /\ response' = IF r.http THEN resp ELSE NoResponse
        /\ playable' = r.ret
        /\ raised' = r.exc
        /\ IF r.exc
           THEN /\ pc' = "done"
                /\ trace' = trace \o CheckEvents(p.id, r)
                                  \o <<Event("log", 0, "Fatal error", TRUE)>>
           ELSE /\ pc' = "update"
                /\ trace' = trace \o CheckEvents(p.id, r)
    /\ UNCHANGED <<store, api_key, base_id, records, projects, idx,
                   ready_count, invalid_count, runs, ext, touched, prevOk, prevFailed, calls>>

\* update_status returned ok for the current project
AfterUpdate(ok) ==
    LET p == projects[idx] IN
    /\ trace' = Append(trace, Event("update", p.id, StatusFor(playable), ok))
    /\ ready_count' = ReadyAfter(ready_count, playable, ok)
    /\ invalid_count' = InvalidAfter(invalid_count, playable, ok)

\* validator.update_status(project['id'], 'Ready' or 'Invalid') and the tally
Update ==
    /\ pc = "update"
    /\ \/ /\ store' = TableUpdate(store, projects[idx].id, StatusFor(playable))
          /\ AfterUpdate(TRUE)          \* table.update returns
       \/ /\ store' = store
          /\ AfterUpdate(FALSE)         \* table.update raises
    /\ pc' = "sleep"
    /\ response' = NoResponse
    /\ UNCHANGED <<api_key, base_id, records, projects, idx, url, playable,
                   raised, runs, ext, touched, prevOk, prevFailed,
                   calls>>

\* the sleep placed inside the branch of a successful write
SleepOnSuccess ==
    /\ pc = "sleep"
    /\ LET slept == IF trace[Len(trace)].ok
                    THEN <<Event("sleep", SleepSeconds, "", TRUE)>>
                    ELSE <<>> IN
       IF idx < Len(projects)
       THEN /\ idx' = idx + 1
            /\ pc' = "check"
            /\ trace' = trace \o slept
       ELSE /\ idx' = idx
            /\ pc' = "done"
            /\ trace' = trace \o slept
                        \o <<Event("log", 0, "Validation complete", TRUE)>>
    /\ UNCHANGED <<store, api_key, base_id, records, projects, url, response,
                   playable, raised, ready_count, invalid_count, runs, ext,
                   touched, prevOk, prevFailed, calls>>

\* time.sleep(1), then the next project or the summary
Sleep ==
    /\ pc = "sleep"
    /\ IF idx < Len(projects)
       THEN /\ idx' = idx + 1
            /\ pc' = "check"
            /\ trace' = Append(trace, Event("sleep", SleepSeconds, "", TRUE))
       ELSE /\ idx' = idx
            /\ pc' = "done"
            /\ trace' = trace \o <<Event("sleep", SleepSeconds, "", TRUE),
                                   Event("log", 0, "Validation complete", TRUE)>>
    /\ UNCHANGED <<store, api_key, base_id, records, projects, url, response,
                   playable, raised, ready_count, invalid_count, runs, ext,
                   touched, prevOk, prevFailed, calls>>

\* ids of the update entries of a trace with the given result
UpdatedIds(t, ok) ==
    { t[i].n : i \in { j \in 1..Len(t) : t[j].op = "update" /\ t[j].ok = ok } }

\* the script is started again: a new process, the same store
StartRun ==
    /\ pc = "done"
    /\ runs < MaxRuns
    /\ runs' = runs + 1
    /\ pc' = "start"
    /\ records' = <<>>
    /\ projects' = <<>>
    /\ idx' = 0
    /\ url' = NoneUrl
    /\ response' = NoResponse
    /\ playable' = FALSE
    /\ raised' = FALSE
    /\ ready_count' = 0
    /\ invalid_count' = 0
    /\ trace' = <<>>
    /\ prevOk' = UpdatedIds(trace, TRUE)
    /\ prevFailed' = UpdatedIds(trace, FALSE)
    /\ UNCHANGED <<store, api_key, base_id, ext, touched, calls>>

\* another party changes the status field of a record of the store
ExternalModify ==
    /\ ext < MaxExt
    /\ pc # "checker"
    /\ \E i \in 1..Len(store), s \in Statuses :
        /\ s # store[i].ysws_status
        /\ store' = [store EXCEPT ![i].ysws_status = s]
        /\ touched' = touched \cup {store[i].id}
    /\ ext' = ext + 1
    /\ UNCHANGED <<api_key, base_id, pc, records, projects, idx, url, response,
                   playable, raised, ready_count, invalid_count, trace, runs,
                   prevOk, prevFailed, calls>>

\* the program on a store that no other party writes
Next ==
    \/ Construct
    \/ Fetch
    \/ Check
    \/ Update
    \/ Sleep
    \/ StartRun

Spec == Init /\ [][Next]_vars

\* the program on a store that other parties write too
InitExt ==
    /\ Init
    /\ Len(store) <= MaxExtRecords

NextExt ==
    \/ Construct
    \/ Fetch
    \/ Check
    \/ Update
    \/ Sleep
    \/ StartRun
    \/ ExternalModify

SpecExt == InitExt /\ [][NextExt]_vars

\* ------------------------------------------------ is_playable on its own
InitChecker ==
    /\ store = <<>>
    /\ api_key = NoneStr
    /\ base_id = NoneStr
    /\ pc = "checker"
    /\ records = <<>>
    /\ projects = <<>>
    /\ idx = 0
    /\ url = NoneUrl
    /\ response = NoResponse
    /\ playable = FALSE
    /\ raised = FALSE
    /\ ready_count = 0
    /\ invalid_count = 0
    /\ trace = <<>>
    /\ runs = 0
    /\ ext = 0
    /\ touched = {}
    /\ prevOk = {}
    /\ prevFailed = {}
    /\ calls = 0

\* ItchioChecker.is_playable(u), called by any caller with any URL
IsPlayableCall ==
    /\ pc = "checker"
    /\ calls < MaxCalls
    /\ \E u \in CallUrls, resp \in HttpOutcomes :
        LET r == IsPlayable(u, resp) IN
        /\ url' = u
        /\ response' = IF r.http THEN resp ELSE NoResponse
        /\ playable' = r.ret
        /\ raised' = r.exc
        /\ trace' = CheckEvents(0, r)
    /\ calls' = calls + 1
    /\ UNCHANGED <<store, api_key, base_id, pc, records, projects, idx,
                   ready_count, invalid_count, runs, ext, touched, prevOk, prevFailed>>

NextChecker == IsPlayableCall

SpecChecker == InitChecker /\ [][NextChecker]_vars

\* ============================================================ properties
Processed == {"Ready", "Invalid"}

\* this run has made its store read
Fetched == trace # <<>> /\ trace[1].op = "read"

ReadOk == Fetched /\ trace[1].ok

ProjectIds == { projects[j].id : j \in 1..Len(projects) }

\* the entries of trace for one kind of call
IsCheck(e) == e.op = "check"
IsUpdate(e) == e.op = "update"
IsStep(e) == e.op \in {"check", "update", "sleep"}
Checks == SelectSeq(trace, IsCheck)
Updates == SelectSeq(trace, IsUpdate)
Steps == SelectSeq(trace, IsStep)

\* a URL with at least one character that is not whitespace
NonBlank(u) == u # NoneUrl /\ \E i \in 1..Len(u) : u[i] \notin Whitespace

\* the status the store holds for a record id
StatusOf(id) ==
    LET i == CHOOSE k \in 1..Len(store) : store[k].id = id IN store[i].ysws_status

\* C1: after a successful store read, the candidate list holds exactly the
\* records read whose gameplay_url is non-empty and whose ysws_status is
\* neither 'Ready' nor 'Invalid', each once, with its id, URL and status,
\* in the order of the store.
C1_FilterExact ==
    ReadOk =>
        /\ \A i \in 1..Len(records) :
            Cardinality({ j \in 1..Len(projects) : projects[j].id = records[i].id })
              = IF /\ records[i].gameplay_url \notin {NoneUrl, <<>>}
                   /\ records[i].ysws_status # "Ready"
                   /\ records[i].ysws_status # "Invalid"
                THEN 1 ELSE 0
        /\ \A j \in 1..Len(projects) :
            \E i \in 1..Len(records) :
                /\ projects[j].id = records[i].id
                /\ projects[j].url = records[i].gameplay_url
                /\ projects[j].current_status = records[i].ysws_status
        /\ \A j, k \in 1..Len(projects) :
            j < k =>
                \E a, b \in 1..Len(records) :
                    /\ a < b
                    /\ records[a].id = projects[j].id
                    /\ records[b].id = projects[k].id

\* C1 witness: two records were read, the first already 'Invalid' and left
\* out, the second a candidate.
C1_Witness ==
    /\ ReadOk
    /\ Len(records) = 2
    /\ records[1].ysws_status = "Invalid"
    /\ records[1].gameplay_url = <<"a">>
    /\ Len(projects) = 1
    /\ projects[1].id = 2

\* C2: within a run the k-th is_playable call and the k-th update_status
\* call are for the k-th candidate, the status written is 'Ready' after a
\* true result and 'Invalid' after a false one, no id is written twice, and
\* a finished run has checked and written every candidate exactly once.
C2_OneUpdatePerCandidate ==
    /\ Len(Updates) <= Len(Checks)
    /\ Len(Checks) <= Len(Updates) + 1
    /\ Len(Checks) <= Len(projects)
    /\ \A k \in 1..Len(Checks) : Checks[k].n = projects[k].id
    /\ \A k \in 1..Len(Updates) :
        /\ Updates[k].n = projects[k].id
        /\ Updates[k].arg \in {"Ready", "Invalid"}
        /\ (Updates[k].arg = "Ready") = Checks[k].ok
    /\ \A k, l \in 1..Len(Updates) : k # l => Updates[k].n # Updates[l].n
    /\ (pc = "done" /\ Fetched) =>
        /\ Len(Updates) = Len(projects)
        /\ Len(Checks) = Len(projects)

\* C2 witness: a finished run of two candidates, the first playable and the
\* second not.
C2_Witness ==
    /\ pc = "done"
    /\ Len(projects) = 2
    /\ Len(Updates) = 2
    /\ Updates[1].arg = "Ready"
    /\ Updates[2].arg = "Invalid"

\* C3 as stated: whenever a write of a record is about to be made, the
\* store holds neither 'Ready' nor 'Invalid' for that record.
C3_NeverRewritesProcessed ==
    pc = "update" => StatusOf(projects[idx].id) \notin Processed

\* C3 as amended: a record is written only if its status was neither
\* 'Ready' nor 'Invalid' when the run read the store, and unless another
\* party changed the record after that read, its status is still neither of
\* the two when the write is made.
C3_WritesOnlyUnprocessedAtRead ==
    pc = "update" =>
        /\ projects[idx].current_status \notin Processed
        /\ projects[idx].id \notin touched =>
            StatusOf(projects[idx].id) \notin Processed

\* C3 witness: a second run is about to write a record that another party
\* reset before the run's store read.
C3_Witness ==
    /\ pc = "update"
    /\ runs = 2
    /\ ext = 1
    /\ prevOk = {projects[idx].id}
    /\ touched = {}

\* C4: a call of is_playable raises nothing, and it returns true exactly
\* when the URL is non-blank, the request and the parse raised nothing, the
\* status is 200 and the body has at least one game_frame element.
C4_PlayableExactly ==
    calls > 0 =>
        /\ ~raised
        /\ playable = (/\ NonBlank(url)
                       /\ response.exc = "none"
                       /\ response.status = 200
                       /\ response.frames >= 1)

\* C4 witness: a call that returned true.
C4_Witness ==
    /\ calls > 0
    /\ playable
    /\ response.frames = 2

\* C5: at the end of a run with candidates, ready_count is the number of
\* candidates checked true and written successfully, invalid_count the
\* number checked false and written successfully, their sum is at most the
\* number of candidates, and equals it exactly when no write failed.
C5_TalliesCountSuccessfulWrites ==
    (pc = "done" /\ projects # <<>>) =>
        LET n == Len(projects)
            ready == { k \in 1..n : Checks[k].ok /\ Updates[k].ok }
            invalid == { k \in 1..n : ~Checks[k].ok /\ Updates[k].ok }
        IN
        /\ Len(Checks) = n
        /\ Len(Updates) = n
        /\ ready_count = Cardinality(ready)
        /\ invalid_count = Cardinality(invalid)
        /\ ready_count + invalid_count <= n
        /\ (ready_count + invalid_count = n) = (\A k \in 1..n : Updates[k].ok)

\* C5 witness: a finished run of two candidates where one write failed and
\* the other succeeded.
C5_Witness ==
    /\ pc = "done"
    /\ Len(projects) = 2
    /\ Len(Updates) = 2
    /\ ~Updates[1].ok
    /\ Updates[2].ok
    /\ ready_count + invalid_count = 1

\* C6: a store read that raises gives an empty candidate list and no fatal
\* error, and a run whose candidate list is empty ends right after the read
\* with the line 'No projects to validate': no check, no write, no sleep.
C6_EmptyListEndsRun ==
    /\ (Fetched /\ ~trace[1].ok) => projects = <<>>
    /\ (Fetched /\ projects = <<>>) =>
        /\ pc = "done"
        /\ trace = <<Event("read", 0, "view", trace[1].ok),
                     Event("log", 0, "No projects to validate", TRUE)>>

\* C6 witness: a run ended after a store read that raised, while the store
\* holds a record that would qualify.
C6_Witness ==
    /\ pc = "done"
    /\ Fetched
    /\ ~trace[1].ok
    /\ \E i \in 1..Len(store) :
        store[i].gameplay_url = <<"a">> /\ store[i].ysws_status = NoneStr

\* C7: with the API key or the base identifier missing, a run makes no
\* store read, no store write, no URL check and no HTTP request, and ends
\* with the fatal configuration error.
C7_MissingConfigDoesNothing ==
    (api_key \in {NoneStr, ""} \/ base_id \in {NoneStr, ""}) =>
        /\ \A i \in 1..Len(trace) :
            trace[i].op \notin {"read", "http", "check", "update", "sleep"}
        /\ pc \in {"start", "done"}
        /\ pc = "done" => trace = <<Event("log", 0, "Fatal error", TRUE)>>
        /\ records = <<>> /\ projects = <<>>

\* C7 witness: a run ended with the API key set and the base identifier
\* missing, on a store that holds a candidate.
C7_Witness ==
    /\ pc = "done"
    /\ api_key = "key"
    /\ base_id = NoneStr
    /\ \E i \in 1..Len(store) : Qualifies(store[i])

\* C8: for None, the empty string and every whitespace-only URL,
\* is_playable returns false and makes no HTTP request.
C8_BlankUrlNoRequest ==
    (calls > 0 /\ ~NonBlank(url)) =>
        /\ playable = FALSE
        /\ ~raised
        /\ \A i \in 1..Len(trace) : trace[i].op # "http"
        /\ response = NoResponse

\* C8 witness: a call with a URL of a space and a tab.
C8_Witness ==
    /\ calls > 0
    /\ url = <<" ", "\t">>
    /\ ~playable

\* C9: the calls of a run come in rounds check, update, sleep, one round
\* per candidate in list order, every sleep is of 1 second, and a finished
\* run with n candidates made exactly n rounds, whatever the checks and
\* the writes returned.
C9_CheckUpdateSleepRounds ==
    /\ \A j \in 1..Len(Steps) :
        LET k == (j + 2) \div 3 IN
        /\ k <= Len(projects)
        /\ j % 3 = 1 => (Steps[j].op = "check" /\ Steps[j].n = projects[k].id)
        /\ j % 3 = 2 => (Steps[j].op = "update" /\ Steps[j].n = projects[k].id)
        /\ j % 3 = 0 => (Steps[j].op = "sleep" /\ Steps[j].n = 1)
    /\ (pc = "done" /\ Fetched) => Len(Steps) = 3 * Len(projects)
    /\ pc = "check" => Len(Steps) = 3 * (idx - 1)
    /\ pc = "update" => Len(Steps) = 3 * (idx - 1) + 1
    /\ pc = "sleep" => Len(Steps) = 3 * (idx - 1) + 2

\* C9 witness: the second candidate is about to be checked after a first
\* candidate whose check returned false and whose write failed.
C9_Witness ==
    /\ pc = "check"
    /\ idx = 2
    /\ Len(Steps) = 3
    /\ ~Steps[1].ok
    /\ ~Steps[2].ok
    /\ Steps[3].op = "sleep"

\* C10 as stated: in a run that follows another, no record the previous run
\* wrote successfully is a candidate, checked or written, and every record
\* whose write failed in the previous run is a candidate again.
C10_NextRunCandidates ==
    (runs >= 2 /\ Fetched) =>
        /\ prevOk \cap ProjectIds = {}
        /\ \A i \in 1..Len(trace) :
            trace[i].op \in {"http", "check", "update"} => trace[i].n \notin prevOk
        /\ prevFailed \subseteq ProjectIds

\* C10 as amended: the same, the records whose write failed being
\* candidates again when the next run's store read succeeds; and a failed
\* write leaves the status the record had when the run read the store.
C10_NextRunCandidatesAfterRead ==
    /\ (runs >= 2 /\ Fetched) =>
        /\ prevOk \cap ProjectIds = {}
        /\ \A i \in 1..Len(trace) :
            trace[i].op \in {"http", "check", "update"} => trace[i].n \notin prevOk
        /\ ReadOk => prevFailed \subseteq ProjectIds
    /\ (pc = "sleep" /\ ~trace[Len(trace)].ok) =>
        StatusOf(projects[idx].id) = projects[idx].current_status

\* C10 witness: the second run has read the store after a first run in
\* which one write succeeded and one failed.
C10_Witness ==
    /\ runs = 2
    /\ ReadOk
    /\ prevOk # {}
    /\ prevFailed # {}
    /\ prevFailed \subseteq ProjectIds

====
